---- MODULE Spec2Model ----
(***************************************************************************)
(* A model of src/lib.rs of inspect_prometheus: the distillation of a      *)
(* prometheus::proto snapshot into MetricFamily / Metric / MetricLabel     *)
(* values (distill_metric_state), the accessors Metric::count and          *)
(* Metric::sum, and the label-string helper (MetricLabel::from_str and the *)
(* two From conversions).                                                  *)
(*                                                                         *)
(* Strings are sequences of one-character strings, so that split_once can  *)
(* be computed: "a|b" is <<"a", "|", "b">> and "" is <<>>.                 *)
(* f64 and u64 values are drawn from small sets of integers.               *)
(* Option<T> is None or Some(v).                                           *)
(***************************************************************************)
EXTENDS Integers, Sequences, FiniteSets, TLC

VARIABLES
    input,      \* input[c]: the raw families caller c passes in
    pc,         \* pc[c]: where caller c is: "families", "metrics", "done"
    fi,         \* fi[c]: families the outer iterator has yielded and finished
    mi,         \* mi[c]: samples of the current family the inner iterator has mapped
    name,       \* name[c]: the `name` local of the outer closure
    metrics,    \* metrics[c]: the Vec<Metric> being collected for the current family
    out,        \* out[c]: the Vec<MetricFamily> being collected
    diag,       \* the tracing sink, shared by all callers: the error events in order
    rep,        \* the string handed to the label-string helper
    r_from_str, \* what MetricLabel::from_str(rep) returned, or NotCalled
    r_from_ref, \* what <MetricLabel as From<&str>>::from(rep) did, or NotCalled
    r_from_string \* what <MetricLabel as From<String>>::from(rep) did, or NotCalled

vars == <<input, pc, fi, mi, name, metrics, out, diag,
          rep, r_from_str, r_from_ref, r_from_string>>

distill_vars == <<input, pc, fi, mi, name, metrics, out, diag>>
label_vars == <<rep, r_from_str, r_from_ref, r_from_string>>

(***************************************************************************)
(* Bounds of the model.                                                    *)
(***************************************************************************)
MaxFamilies == 2    \* families per snapshot (Spec)
MaxSamples == 2     \* samples per family (Spec)
MaxLabels == 2      \* labels per sample (SpecSample)
MaxLen == 5         \* characters of a label string (SpecLabel)
NumCallers == 2     \* concurrent callers (SpecConc)

SeqsUpTo(S, n) == UNION {[1..k -> S] : k \in 0..n}

(***************************************************************************)
(* Option<T>.                                                              *)
(***************************************************************************)
None == [some |-> FALSE]
Some(v) == [some |-> TRUE, val |-> v]
Option(S) == {None} \cup {Some(v) : v \in S}

\* Option::unwrap_or
unwrap_or(o, d) == IF o.some THEN o.val ELSE d

(***************************************************************************)
(* The raw snapshot: prometheus::proto::{MetricFamily, Metric, LabelPair,  *)
(* Counter, Gauge, Histogram, MetricType}, as far as lib.rs reads them.    *)
(* A sample's counter, gauge and histogram messages are optional and       *)
(* independent of each other and of the family's field_type; each numeric  *)
(* field of a message is optional too.                                     *)
(***************************************************************************)
MetricType == {"COUNTER", "GAUGE", "SUMMARY", "UNTYPED", "HISTOGRAM"}

F64 == {0, 5}
U64 == {0, 42}

FamilyNames == {<<"a">>, <<"b">>}

RawLabelPairs ==
    { [name |-> <<>>, value |-> <<>>],
      [name |-> <<"a">>, value |-> <<>>],
      [name |-> <<"a">>, value |-> <<"a">>] }

RawCounters == [value : Option(F64)]
RawGauges == [value : Option(F64)]
RawHistograms == [sample_count : Option(U64), sample_sum : Option(F64)]

RawMetrics(labelSeqs) ==
    [label : labelSeqs, counter : Option(RawCounters), gauge : Option(RawGauges),
     histogram : Option(RawHistograms)]

\* The getters of the generated protobuf code: a message that is not set reads
\* as the default instance, a numeric field that is not set reads as 0.
get_name(x) == x.name
get_value(x) == x.value
get_field_type(family) == family.field_type
get_metric(family) == family.metric
get_label(m) == m.label
get_counter(m) == unwrap_or(m.counter, [value |-> None])
get_gauge(m) == unwrap_or(m.gauge, [value |-> None])
get_histogram(m) == unwrap_or(m.histogram, [sample_count |-> None, sample_sum |-> None])
has_value(x) == x.value.some
get_num_value(x) == unwrap_or(x.value, 0)
has_sample_count(h) == h.sample_count.some
get_sample_count(h) == unwrap_or(h.sample_count, 0)
has_sample_sum(h) == h.sample_sum.some
get_sample_sum(h) == unwrap_or(h.sample_sum, 0)

(***************************************************************************)
(* The distilled types of lib.rs.                                          *)
(***************************************************************************)
MetricFamily(n, ms) == [name |-> n, metrics |-> ms]

MetricLabel(n, v) == [name |-> n, value |-> v]

Counter(labels, val) == [tag |-> "Counter", labels |-> labels, value |-> val]
Gauge(labels, val) == [tag |-> "Gauge", labels |-> labels, value |-> val]
Histogram(labels, sample_count, sample_sum) ==
    [tag |-> "Histogram", labels |-> labels,
     sample_count |-> sample_count, sample_sum |-> sample_sum]
UNSUPPORTED(metric_type) == [tag |-> "UNSUPPORTED", kind |-> metric_type]

\* Metric::count
count(self) ==
    CASE self.tag = "Counter" -> 1
      [] self.tag = "Gauge" -> 1
      [] self.tag = "Histogram" -> unwrap_or(self.sample_count, 0)
      [] self.tag = "UNSUPPORTED" -> 1

\* Metric::sum
sum(self) ==
    CASE self.tag = "Counter" -> unwrap_or(self.value, 0)
      [] self.tag = "Gauge" -> unwrap_or(self.value, 0)
      [] self.tag = "Histogram" -> unwrap_or(self.sample_sum, 0)
      [] self.tag = "UNSUPPORTED" -> 0

(***************************************************************************)
(* distill_metric_state, piece by piece.                                   *)
(***************************************************************************)
\* A variant of has_next that stops one element early.
has_next_skip_last(i, v) == i + 1 < Len(v)

\* Iterator::next yields an element while some are left.
has_next(i, v) == i < Len(v)

\* A variant of push that inserts at the front.
push_front(v, x) == <<x>> \o v

\* Vec's collect: elements are pushed at the back, in iteration order.
push(v, x) == Append(v, x)

\* A variant of collect_labels that keeps one label per name, the first.
RECURSIVE dedup_by_name(_)
dedup_by_name(ls) ==
    IF ls = <<>> THEN <<>>
    ELSE LET front == dedup_by_name(SubSeq(ls, 1, Len(ls) - 1))
             last == ls[Len(ls)]
         IN  IF \E i \in 1..Len(front) : front[i].name = last.name
             THEN front
             ELSE Append(front, last)

collect_labels_dedup(m) ==
    dedup_by_name([i \in 1..Len(get_label(m)) |->
                      MetricLabel(get_name(get_label(m)[i]), get_value(get_label(m)[i]))])

\* The `labels` local: one MetricLabel per raw label, in order.
collect_labels(m) ==
    [i \in 1..Len(get_label(m)) |->
        MetricLabel(get_name(get_label(m)[i]), get_value(get_label(m)[i]))]

\* A variant of counter_val that stores the getter's default when unset.
counter_val_coerced(c) == Some(get_num_value(c))

\* `if c.has_value() { Some(c.get_value()) } else { None }`
counter_val(c) == IF has_value(c) THEN Some(get_num_value(c)) ELSE None

\* `if g.has_value() { Some(g.get_value()) } else { None }`
gauge_val(g) == IF has_value(g) THEN Some(get_num_value(g)) ELSE None

\* `if h.has_sample_count() { Some(h.get_sample_count()) } else { None }`
hist_sample_count(h) == IF has_sample_count(h) THEN Some(get_sample_count(h)) ELSE None

\* A variant of hist_sample_sum that tests the presence of the count.
hist_sample_sum_coupled(h) ==
    IF has_sample_count(h) THEN Some(get_sample_sum(h)) ELSE None

\* `if h.has_sample_sum() { Some(h.get_sample_sum()) } else { None }`
hist_sample_sum(h) == IF has_sample_sum(h) THEN Some(get_sample_sum(h)) ELSE None

\* A variant of log_error that emits nothing.
log_error_dropped(c, metric_type) == <<>>

\* tracing::error!: one event, naming the metric type, on the calling thread.
log_error(c, metric_type) == <<[caller |-> c, kind |-> metric_type]>>

\* `match <field type> { ... }`: the Metric a raw sample becomes under field
\* type ft, and the events logged while making it.
match_field_type(c, ft, m) ==
    LET labels == collect_labels(m)
    IN  CASE ft = "COUNTER" ->
               [metric |-> Counter(labels, counter_val(get_counter(m))),
                events |-> <<>>]
          [] ft = "GAUGE" ->
               [metric |-> Gauge(labels, gauge_val(get_gauge(m))),
                events |-> <<>>]
          [] ft = "HISTOGRAM" ->
               [metric |-> Histogram(labels, hist_sample_count(get_histogram(m)),
                                     hist_sample_sum(get_histogram(m))),
                events |-> <<>>]
          [] OTHER ->
               [metric |-> UNSUPPORTED(ft), events |-> log_error(c, ft)]

\* A variant of map_metric that matches on the payload the sample carries.
map_metric_by_payload(c, family, m) ==
    match_field_type(c,
                     IF m.counter.some THEN "COUNTER"
                     ELSE IF m.gauge.some THEN "GAUGE"
                     ELSE IF m.histogram.some THEN "HISTOGRAM"
                     ELSE get_field_type(family),
                     m)

\* The inner closure |m| { ... match family.get_field_type() { ... } }.
map_metric(c, family, m) == match_field_type(c, get_field_type(family), m)

\* A variant of CurFamily that reads one cursor shared by all callers.
CurFamily_shared(c) == input[1][fi[c] + 1]

\* The family the outer closure of caller c is working on.
CurFamily(c) == input[c][fi[c] + 1]

\* The sample the inner closure of caller c is about to map.
CurMetric(c) == get_metric(CurFamily(c))[mi[c] + 1]

Callers == DOMAIN pc

\* families.into_iter() yields the next family; the outer closure reads its name
\* and starts the inner iteration over its samples.
NextFamily(c) ==
    /\ pc[c] = "families"
    /\ has_next(fi[c], input[c])
    /\ name' = [name EXCEPT ![c] = get_name(CurFamily(c))]
    /\ metrics' = [metrics EXCEPT ![c] = <<>>]
    /\ mi' = [mi EXCEPT ![c] = 0]
    /\ pc' = [pc EXCEPT ![c] = "metrics"]
    /\ UNCHANGED <<input, fi, out, diag, label_vars>>

\* The inner iterator yields the next sample and the inner closure maps it.
MapMetric(c) ==
    /\ pc[c] = "metrics"
    /\ has_next(mi[c], get_metric(CurFamily(c)))
    /\ LET r == map_metric(c, CurFamily(c), CurMetric(c))
       IN  /\ metrics' = [metrics EXCEPT ![c] = push(@, r.metric)]
           /\ diag' = diag \o r.events
    /\ mi' = [mi EXCEPT ![c] = @ + 1]
    /\ UNCHANGED <<input, pc, fi, name, out, label_vars>>

\* The inner iterator is exhausted: the samples are collected and the outer
\* closure returns MetricFamily { name, metrics }, which the outer collect pushes.
CollectMetrics(c) ==
    /\ pc[c] = "metrics"
    /\ ~has_next(mi[c], get_metric(CurFamily(c)))
    /\ out' = [out EXCEPT ![c] = push(@, MetricFamily(name[c], metrics[c]))]
    /\ fi' = [fi EXCEPT ![c] = @ + 1]
    /\ pc' = [pc EXCEPT ![c] = "families"]
    /\ UNCHANGED <<input, mi, name, metrics, diag, label_vars>>

\* The outer iterator is exhausted: distill_metric_state returns out[c].
CollectFamilies(c) ==
    /\ pc[c] = "families"
    /\ ~has_next(fi[c], input[c])
    /\ pc' = [pc EXCEPT ![c] = "done"]
    /\ UNCHANGED <<input, fi, mi, name, metrics, out, diag, label_vars>>

\* Any caller takes its next step.
StepNextFamily == \E c \in Callers : NextFamily(c)
StepMapMetric == \E c \in Callers : MapMetric(c)
StepCollectMetrics == \E c \in Callers : CollectMetrics(c)
StepCollectFamilies == \E c \in Callers : CollectFamilies(c)

Next ==
    \/ StepNextFamily
    \/ StepMapMetric
    \/ StepCollectMetrics
    \/ StepCollectFamilies

\* distill_metric_state as a function of its input: the families mapped in
\* order, each family's samples mapped in order.
distill_metric_state(c, families) ==
    [i \in 1..Len(families) |->
        MetricFamily(get_name(families[i]),
                     [j \in 1..Len(get_metric(families[i])) |->
                         map_metric(c, families[i], get_metric(families[i])[j]).metric])]

(***************************************************************************)
(* The label-string helper.                                                *)
(***************************************************************************)
Ok(v) == [ok |-> TRUE, val |-> v]
NotCalled == [called |-> FALSE]
Returned(v) == [called |-> TRUE, panicked |-> FALSE, val |-> v]
Panicked == [called |-> TRUE, panicked |-> TRUE]

\* Result::unwrap: the value of an Ok, a panic otherwise.
unwrap(r) == IF r.ok THEN Returned(r.val) ELSE Panicked

\* A variant of find_pipe that finds the last "|".
find_last_pipe(s) ==
    IF \E i \in 1..Len(s) : s[i] = "|"
    THEN CHOOSE i \in 1..Len(s) : s[i] = "|" /\ \A j \in (i + 1)..Len(s) : s[j] # "|"
    ELSE 0

\* The index of the first "|" of s, 0 when there is none.
find_pipe(s) ==
    IF \E i \in 1..Len(s) : s[i] = "|"
    THEN CHOOSE i \in 1..Len(s) : s[i] = "|" /\ \A j \in 1..(i - 1) : s[j] # "|"
    ELSE 0

\* A variant of split_once that cuts the value at the next "|", as taking the
\* first two parts of split("|") would.
split_once_parts(s) ==
    LET i == find_pipe(s)
        rest == SubSeq(s, i + 1, Len(s))
        j == find_pipe(rest)
    IN  IF i = 0 THEN None
        ELSE Some(<<SubSeq(s, 1, i - 1),
                    IF j = 0 THEN rest ELSE SubSeq(rest, 1, j - 1)>>)

\* str::split_once("|"): the text before and after the first "|", or None.
split_once(s) ==
    LET i == find_pipe(s)
    IN  IF i = 0 THEN None
        ELSE Some(<<SubSeq(s, 1, i - 1), SubSeq(s, i + 1, Len(s))>>)

\* <MetricLabel as FromStr>::from_str
from_str(s) ==
    LET sp == split_once(s)
    IN  IF sp.some
        THEN Ok(MetricLabel(sp.val[1], sp.val[2]))
        ELSE Ok(MetricLabel(<<>>, <<>>))

\* <MetricLabel as From<&str>>::from
from_ref(s) == unwrap(from_str(s))

\* <MetricLabel as From<String>>::from
from_string(s) == unwrap(from_str(s))

CallFromStr ==
    /\ r_from_str = NotCalled
    /\ r_from_str' = Returned(from_str(rep))
    /\ UNCHANGED <<rep, r_from_ref, r_from_string, distill_vars>>

CallFromRef ==
    /\ r_from_ref = NotCalled
    /\ r_from_ref' = from_ref(rep)
    /\ UNCHANGED <<rep, r_from_str, r_from_string, distill_vars>>

CallFromString ==
    /\ r_from_string = NotCalled
    /\ r_from_string' = from_string(rep)
    /\ UNCHANGED <<rep, r_from_str, r_from_ref, distill_vars>>

NextLabel == CallFromStr \/ CallFromRef \/ CallFromString

(***************************************************************************)
(* Initial states and specifications.                                      *)
(***************************************************************************)
LabelIdle ==
    /\ rep = <<>>
    /\ r_from_str = NotCalled
    /\ r_from_ref = NotCalled
    /\ r_from_string = NotCalled

\* Every caller of `callers` is about to run distill_metric_state on an input
\* of `inputs`; nothing has been logged.
InitDistill(callers, inputs) ==
    /\ input \in [callers -> inputs]
    /\ pc = [c \in callers |-> "families"]
    /\ fi = [c \in callers |-> 0]
    /\ mi = [c \in callers |-> 0]
    /\ name = [c \in callers |-> <<>>]
    /\ metrics = [c \in callers |-> <<>>]
    /\ out = [c \in callers |-> <<>>]
    /\ diag = <<>>
    /\ LabelIdle

\* Three samples that differ in labels and payload: one with a counter and a
\* gauge payload, one with no payload at all, one with a histogram whose sum is
\* unset beside a counter whose value is unset.
ProbeMetric(i) ==
    CASE i % 3 = 1 ->
           [label |-> <<[name |-> <<"a">>, value |-> <<"a">>]>>,
            counter |-> Some([value |-> Some(5)]),
            gauge |-> Some([value |-> Some(0)]),
            histogram |-> None]
      [] i % 3 = 2 ->
           [label |-> <<>>, counter |-> None, gauge |-> None, histogram |-> None]
      [] OTHER ->
           [label |-> <<[name |-> <<>>, value |-> <<>>]>>,
            counter |-> Some([value |-> None]),
            gauge |-> None,
            histogram |-> Some([sample_count |-> Some(42), sample_sum |-> None])]

ProbeMetricSeqs == {[i \in 1..n |-> ProbeMetric(i)] : n \in 0..MaxSamples}

ProbeFamilies ==
    [name : FamilyNames, field_type : MetricType, metric : ProbeMetricSeqs]

\* Spec: one caller, every snapshot of up to MaxFamilies families, each with
\* any of the names, any kind and the first 0 to MaxSamples probe samples.
Init == InitDistill({1}, SeqsUpTo(ProbeFamilies, MaxFamilies))

Spec == Init /\ [][Next]_vars

\* The caller runs to completion: a thread that is running keeps running.
LiveSpec == Init /\ [][Next]_vars /\ WF_vars(Next)

\* SpecSample: one caller, one family of any kind holding one sample with any
\* labels (up to MaxLabels) and any combination of payloads.
SampleFamilies ==
    [name : {<<"a">>}, field_type : MetricType,
     metric : {<<m>> : m \in RawMetrics(SeqsUpTo(RawLabelPairs, MaxLabels))}]

InitSample == InitDistill({1}, {<<f>> : f \in SampleFamilies})

SpecSample == InitSample /\ [][Next]_vars

\* SpecConc: NumCallers callers, each with its own snapshot, interleaved.
ConcInputs ==
    {<<[name |-> <<"a">>, field_type |-> k, metric |-> <<ProbeMetric(1)>>]>> :
        k \in {"COUNTER", "HISTOGRAM", "SUMMARY", "UNTYPED"}}

InitConc == InitDistill(1..NumCallers, ConcInputs)

SpecConc == InitConc /\ [][Next]_vars

\* SpecLabel: the label-string helper on every string of up to MaxLen characters.
Chars == {"a", "b", "c", "|"}

InitLabel ==
    /\ rep \in SeqsUpTo(Chars, MaxLen)
    /\ r_from_str = NotCalled
    /\ r_from_ref = NotCalled
    /\ r_from_string = NotCalled
    /\ input = <<>>
    /\ pc = <<>>
    /\ fi = <<>>
    /\ mi = <<>>
    /\ name = <<>>
    /\ metrics = <<>>
    /\ out = <<>>
    /\ diag = <<>>

SpecLabel == InitLabel /\ [][NextLabel]_vars

(***************************************************************************)
(* What the properties below read off a state.                             *)
(***************************************************************************)
Min(a, b) == IF a < b THEN a ELSE b

Supported == {"COUNTER", "GAUGE", "HISTOGRAM"}

\* Every (family, raw sample, output Metric) of caller c so far, position by
\* position: those of the families already collected and those of the family
\* being mapped.
CollectedPairs(c) ==
    UNION { { [family |-> input[c][i],
               raw |-> input[c][i].metric[j],
               metric |-> out[c][i].metrics[j]] :
              j \in 1..Min(Len(out[c][i].metrics), Len(input[c][i].metric)) } :
            i \in 1..Min(Len(out[c]), Len(input[c])) }

PendingPairs(c) ==
    IF pc[c] = "metrics"
    THEN { [family |-> input[c][fi[c] + 1],
            raw |-> input[c][fi[c] + 1].metric[j],
            metric |-> metrics[c][j]] :
           j \in 1..Min(Len(metrics[c]), Len(input[c][fi[c] + 1].metric)) }
    ELSE {}

Pairs(c) == CollectedPairs(c) \cup PendingPairs(c)

\* The value a raw numeric field was explicitly set to, if it was: `msg` is the
\* optional message, `field` the optional field of it.
RawSet(msg, field) == msg.some /\ msg.val[field].some
RawVal(msg, field) == msg.val[field].val

\* The part of caller c's input that has been mapped so far.
Processed(c) ==
    [i \in 1..fi[c] |-> input[c][i]] \o
    (IF pc[c] = "metrics"
     THEN <<[input[c][fi[c] + 1] EXCEPT !.metric = SubSeq(@, 1, mi[c])]>>
     ELSE <<>>)

\* One kind per sample of an unsupported-kind family, in input order.
RECURSIVE UnsupportedSamples(_)
UnsupportedSamples(fams) ==
    IF fams = <<>> THEN <<>>
    ELSE LET last == fams[Len(fams)]
         IN  UnsupportedSamples(SubSeq(fams, 1, Len(fams) - 1)) \o
             (IF last.field_type \in Supported THEN <<>>
              ELSE [j \in 1..Len(last.metric) |-> last.field_type])

\* The kinds of the events caller c has logged, in order.
LoggedBy(c) ==
    LET mine == SelectSeq(diag, LAMBDA e : e.caller = c)
    IN  [k \in 1..Len(mine) |-> mine[k].kind]

HasPipe(s) == \E i \in 1..Len(s) : s[i] = "|"

(***************************************************************************)
(* C1. Family count, order and names are preserved: the output never holds *)
(* more families than the input, its i-th family has the i-th input        *)
(* family's name, and when the call returns it holds as many families as   *)
(* the input.                                                              *)
(***************************************************************************)
C1_FamiliesPreserved ==
    \A c \in Callers :
        /\ Len(out[c]) <= Len(input[c])
        /\ \A i \in 1..Len(out[c]) : out[c][i].name = input[c][i].name
        /\ pc[c] = "done" => Len(out[c]) = Len(input[c])

\* A finished call on two families of the same name, the first without samples.
C1_Witness ==
    /\ pc[1] = "done"
    /\ Len(input[1]) = 2
    /\ input[1][1].name = input[1][2].name
    /\ input[1][1].metric = <<>>
    /\ Len(input[1][2].metric) = 2
    /\ Len(out[1]) = 2

(***************************************************************************)
(* C2. Within a family the samples are mapped one to one and in order, and *)
(* the variant of each Metric is decided by the family's declared kind     *)
(* alone: Counter in a COUNTER family, Gauge in a GAUGE family, Histogram  *)
(* in a HISTOGRAM family, whatever payload the sample carries; a sample    *)
(* without the payload of the family's kind gets None numeric fields.      *)
(***************************************************************************)
C2_VariantByFamilyKind ==
    \A c \in Callers :
        /\ \A i \in 1..Min(Len(out[c]), Len(input[c])) :
               Len(out[c][i].metrics) = Len(input[c][i].metric)
        /\ pc[c] = "metrics" =>
               /\ Len(metrics[c]) = mi[c]
               /\ mi[c] <= Len(input[c][fi[c] + 1].metric)
        /\ \A p \in Pairs(c) :
               CASE p.family.field_type = "COUNTER" ->
                      /\ p.metric.tag = "Counter"
                      /\ p.metric.labels = p.raw.label
                      /\ ~p.raw.counter.some => p.metric.value = None
                 [] p.family.field_type = "GAUGE" ->
                      /\ p.metric.tag = "Gauge"
                      /\ p.metric.labels = p.raw.label
                      /\ ~p.raw.gauge.some => p.metric.value = None
                 [] p.family.field_type = "HISTOGRAM" ->
                      /\ p.metric.tag = "Histogram"
                      /\ p.metric.labels = p.raw.label
                      /\ ~p.raw.histogram.some =>
                             /\ p.metric.sample_count = None
                             /\ p.metric.sample_sum = None
                 [] OTHER -> p.metric.tag = "UNSUPPORTED"

\* A finished call with a HISTOGRAM family of two samples, the first carrying a
\* counter and a gauge payload and the second no payload at all.
C2_Witness ==
    /\ pc[1] = "done"
    /\ \E i \in 1..Len(input[1]) :
           /\ input[1][i].field_type = "HISTOGRAM"
           /\ Len(input[1][i].metric) = 2
           /\ input[1][i].metric[1].counter.some
           /\ input[1][i].metric[1].gauge.some
           /\ ~input[1][i].metric[2].counter.some
           /\ ~input[1][i].metric[2].histogram.some
           /\ out[1][i].metrics[1].tag = "Histogram"
           /\ out[1][i].metrics[2].tag = "Histogram"

(***************************************************************************)
(* C3, as claimed. The output Metric of every sample, of every family      *)
(* kind, carries a label sequence equal to the sample's. A Metric without  *)
(* a labels field is read as carrying the empty sequence.                  *)
(***************************************************************************)
LabelsOf(metric) == IF "labels" \in DOMAIN metric THEN metric.labels ELSE <<>>

C3_LabelsOfEveryKind ==
    \A c \in Callers :
        \A p \in Pairs(c) : LabelsOf(p.metric) = p.raw.label

(***************************************************************************)
(* C3, amended. The output Metric of every sample of a COUNTER, GAUGE or   *)
(* HISTOGRAM family carries a label sequence equal to the sample's: same   *)
(* names and values, same order and length, repeated and empty names kept. *)
(* The UNSUPPORTED Metric of a sample of any other family is the kind      *)
(* alone and carries no labels.                                            *)
(***************************************************************************)
C3_LabelsOfSupportedKinds ==
    \A c \in Callers :
        \A p \in Pairs(c) :
            IF p.family.field_type \in Supported
            THEN /\ "labels" \in DOMAIN p.metric
                 /\ Len(p.metric.labels) = Len(p.raw.label)
                 /\ \A k \in 1..Len(p.raw.label) :
                        /\ p.metric.labels[k].name = p.raw.label[k].name
                        /\ p.metric.labels[k].value = p.raw.label[k].value
            ELSE /\ p.metric = [tag |-> "UNSUPPORTED", kind |-> p.family.field_type]
                 /\ "labels" \notin DOMAIN p.metric

\* A finished call on a GAUGE sample with two labels of the same name and
\* different values: both are in the output.
C3_Witness ==
    /\ pc[1] = "done"
    /\ input[1][1].field_type = "GAUGE"
    /\ Len(input[1][1].metric[1].label) = 2
    /\ input[1][1].metric[1].label[1].name = input[1][1].metric[1].label[2].name
    /\ input[1][1].metric[1].label[1].value # input[1][1].metric[1].label[2].value
    /\ Len(out[1][1].metrics[1].labels) = 2

(***************************************************************************)
(* C4. For a sample of a COUNTER or GAUGE family the stored value is       *)
(* Some(v) exactly when the raw value was explicitly set to v (0 included) *)
(* and None exactly when it was not; sum() is v when set and 0 when unset, *)
(* and count() is 1 in both cases.                                         *)
(***************************************************************************)
C4_CounterGaugeValue ==
    \A c \in Callers :
        \A p \in Pairs(c) :
            p.family.field_type \in {"COUNTER", "GAUGE"} =>
                LET msg == IF p.family.field_type = "COUNTER"
                           THEN p.raw.counter ELSE p.raw.gauge
                IN  /\ RawSet(msg, "value") =>
                           /\ p.metric.value = [some |-> TRUE, val |-> RawVal(msg, "value")]
                           /\ sum(p.metric) = RawVal(msg, "value")
                    /\ ~RawSet(msg, "value") =>
                           /\ p.metric.value = [some |-> FALSE]
                           /\ sum(p.metric) = 0
                    /\ count(p.metric) = 1

\* A finished call on a COUNTER sample whose value was explicitly set to 0.
C4_Witness ==
    /\ pc[1] = "done"
    /\ input[1][1].field_type = "COUNTER"
    /\ RawSet(input[1][1].metric[1].counter, "value")
    /\ RawVal(input[1][1].metric[1].counter, "value") = 0
    /\ out[1][1].metrics[1].value.some

(***************************************************************************)
(* C5. For a sample of a HISTOGRAM family sample_count and sample_sum are  *)
(* carried independently, each Some(x) exactly when the raw field was set  *)
(* to x and None exactly when it was not; count() is the stored            *)
(* sample_count or 0, sum() the stored sample_sum or 0.                    *)
(***************************************************************************)
C5_HistogramCountSum ==
    \A c \in Callers :
        \A p \in Pairs(c) :
            p.family.field_type = "HISTOGRAM" =>
                LET h == p.raw.histogram
                IN  /\ RawSet(h, "sample_count") =>
                           /\ p.metric.sample_count =
                                  [some |-> TRUE, val |-> RawVal(h, "sample_count")]
                           /\ count(p.metric) = RawVal(h, "sample_count")
                    /\ ~RawSet(h, "sample_count") =>
                           /\ p.metric.sample_count = [some |-> FALSE]
                           /\ count(p.metric) = 0
                    /\ RawSet(h, "sample_sum") =>
                           /\ p.metric.sample_sum =
                                  [some |-> TRUE, val |-> RawVal(h, "sample_sum")]
                           /\ sum(p.metric) = RawVal(h, "sample_sum")
                    /\ ~RawSet(h, "sample_sum") =>
                           /\ p.metric.sample_sum = [some |-> FALSE]
                           /\ sum(p.metric) = 0

\* A finished call on a HISTOGRAM sample whose count is set to 42 and whose sum
\* is not set.
C5_Witness ==
    /\ pc[1] = "done"
    /\ input[1][1].field_type = "HISTOGRAM"
    /\ RawSet(input[1][1].metric[1].histogram, "sample_count")
    /\ RawVal(input[1][1].metric[1].histogram, "sample_count") = 42
    /\ input[1][1].metric[1].histogram.some
    /\ ~RawSet(input[1][1].metric[1].histogram, "sample_sum")
    /\ count(out[1][1].metrics[1]) = 42

(***************************************************************************)
(* C6. Every sample of a family whose kind is not COUNTER, GAUGE or        *)
(* HISTOGRAM becomes UNSUPPORTED(kind) with count() = 1 and sum() = 0, and *)
(* the events a caller has logged are exactly one per such sample mapped   *)
(* so far, naming its kind, in input order: none for samples of supported  *)
(* kinds, none for an unsupported family without samples.                  *)
(***************************************************************************)
C6_UnsupportedAndDiagnostics ==
    /\ \A c \in Callers :
           /\ \A p \in Pairs(c) :
                  p.family.field_type \notin Supported =>
                      /\ p.metric = [tag |-> "UNSUPPORTED", kind |-> p.family.field_type]
                      /\ count(p.metric) = 1
                      /\ sum(p.metric) = 0
           /\ LoggedBy(c) = UnsupportedSamples(Processed(c))
    /\ \A k \in 1..Len(diag) : diag[k].caller \in Callers

\* A finished call on a SUMMARY family of two samples followed by a COUNTER
\* family of two samples: two events, both SUMMARY.
C6_Witness ==
    /\ pc[1] = "done"
    /\ Len(input[1]) = 2
    /\ input[1][1].field_type = "SUMMARY"
    /\ Len(input[1][1].metric) = 2
    /\ input[1][2].field_type = "COUNTER"
    /\ Len(input[1][2].metric) = 2
    /\ Len(diag) = 2

(***************************************************************************)
(* C7. Distillation is total: the call is always at one of its steps,      *)
(* never in an error state; it returns; and when it has returned every     *)
(* family and every sample of the input is in the output, also those after *)
(* a sample of an unsupported kind or with unset numeric fields.           *)
(***************************************************************************)
NothingDropped ==
    \A c \in Callers :
        /\ pc[c] \in {"families", "metrics", "done"}
        /\ pc[c] = "done" =>
               /\ Len(out[c]) = Len(input[c])
               /\ \A i \in 1..Len(input[c]) :
                      Len(out[c][i].metrics) = Len(input[c][i].metric)

AllReturned == \A c \in Callers : pc[c] = "done"

C7_TotalNothingDropped == []NothingDropped /\ <>AllReturned

\* A finished call whose first family is of an unsupported kind and holds a
\* sample, followed by a COUNTER family whose second sample has no value set.
C7_Witness ==
    /\ pc[1] = "done"
    /\ Len(input[1]) = 2
    /\ input[1][1].field_type = "UNTYPED"
    /\ Len(input[1][1].metric) = 2
    /\ input[1][2].field_type = "COUNTER"
    /\ Len(input[1][2].metric) = 2
    /\ out[1][1].metrics[1].tag = "UNSUPPORTED"
    /\ out[1][2].metrics[2] = [tag |-> "Counter", labels |-> <<>>, value |-> None]

(***************************************************************************)
(* C8. Parsing a label string never fails and splits on the first "|"      *)
(* only: with a "|" the name is the text before the first one and the      *)
(* value all the text after it, without a "|" name and value are empty;    *)
(* the two From conversions return the same label and never panic.         *)
(***************************************************************************)
SplitsOnFirstPipe(label) ==
    IF HasPipe(rep)
    THEN \E i \in 1..Len(rep) :
             /\ rep[i] = "|"
             /\ \A j \in 1..(i - 1) : rep[j] # "|"
             /\ label.name = SubSeq(rep, 1, i - 1)
             /\ label.value = SubSeq(rep, i + 1, Len(rep))
    ELSE label.name = <<>> /\ label.value = <<>>

C8_ParseOnFirstPipe ==
    /\ r_from_str # NotCalled =>
           /\ ~r_from_str.panicked
           /\ r_from_str.val.ok
           /\ SplitsOnFirstPipe(r_from_str.val.val)
    /\ r_from_ref # NotCalled =>
           /\ ~r_from_ref.panicked
           /\ SplitsOnFirstPipe(r_from_ref.val)
    /\ r_from_string # NotCalled =>
           /\ ~r_from_string.panicked
           /\ SplitsOnFirstPipe(r_from_string.val)
    /\ (r_from_ref # NotCalled /\ r_from_string # NotCalled) =>
           r_from_ref = r_from_string

\* "a|b|c" parsed all three ways: name "a", value "b|c".
C8_Witness ==
    /\ rep = <<"a", "|", "b", "|", "c">>
    /\ r_from_str # NotCalled
    /\ r_from_ref # NotCalled
    /\ r_from_string # NotCalled
    /\ r_from_ref.val = [name |-> <<"a">>, value |-> <<"b", "|", "c">>]

(***************************************************************************)
(* C9. Concurrent calls do not disturb each other: whatever the            *)
(* interleaving, what a caller has collected is what the call alone makes  *)
(* of the part of its own input it has mapped, its result is what the call *)
(* alone makes of its input, and the events it logged are those of its own *)
(* input.                                                                  *)
(***************************************************************************)
C9_ConcurrentCallsIndependent ==
    \A c \in Callers :
        /\ out[c] = distill_metric_state(c, [i \in 1..fi[c] |-> input[c][i]])
        /\ pc[c] = "metrics" =>
               metrics[c] =
                   distill_metric_state(c, Processed(c))[fi[c] + 1].metrics
        /\ pc[c] = "done" => out[c] = distill_metric_state(c, input[c])
        /\ LoggedBy(c) = UnsupportedSamples(Processed(c))

\* Two calls on different inputs, interleaved: caller 2 logged before caller 1
\* did, caller 1 has returned and caller 2 has not yet.
C9_Witness ==
    /\ pc[1] = "done"
    /\ pc[2] = "metrics"
    /\ input[1] # input[2]
    /\ Len(diag) = 2
    /\ diag[1].caller = 2
    /\ diag[2].caller = 1

(***************************************************************************)
(* C10. Round trip of the label-string helper: for a name without "|" and  *)
(* any value, parsing name + "|" + value gives exactly that name and       *)
(* value; for a name with a "|" it does not; and a string without "|"      *)
(* parses to the same label as the string "|", empty name and empty value. *)
(***************************************************************************)
C10_RoundTrip ==
    r_from_str # NotCalled =>
        LET label == r_from_str.val.val
        IN  /\ \A i \in 1..Len(rep) :
                   rep[i] = "|" =>
                       LET n == SubSeq(rep, 1, i - 1)
                           v == SubSeq(rep, i + 1, Len(rep))
                       IN  IF HasPipe(n)
                           THEN label # [name |-> n, value |-> v]
                           ELSE label = [name |-> n, value |-> v]
            /\ ~HasPipe(rep) =>
                   /\ label = from_str(<<"|">>).val
                   /\ label = [name |-> <<>>, value |-> <<>>]

\* "a||b" parsed: the name "a" has no "|", the value "|b" has one.
C10_Witness ==
    /\ rep = <<"a", "|", "|", "b">>
    /\ r_from_str # NotCalled
    /\ r_from_str.val.val = [name |-> <<"a">>, value |-> <<"|", "b">>]

====
